---- MODULE Spec2Model ----
(***************************************************************************)
(* Model of the expression evaluator: the operator table (operator.rs),    *)
(* the scanner Tokens (tokenizer.rs), the precedence-climbing parser       *)
(* (parser.rs) and the tree evaluator with its facade evaluate (lib.rs).   *)
(*                                                                         *)
(* A character is a one-character string; the two non-ASCII characters of  *)
(* the model are written "U+00E9" (e acute, alphabetic, 2 bytes in UTF-8)  *)
(* and "U+20AC" (euro sign, not alphanumeric, 3 bytes in UTF-8); the      *)
(* grave accent is written "U+0060".  A source string is a sequence of     *)
(* characters.                                                             *)
(***************************************************************************)
EXTENDS Integers, Sequences, FiniteSets, TLC

VARIABLES entry, pc, expression, chars, byte_ix, tokens,
          enumerator, has_error, result, trailing, parsed, value

vars ==
    << entry, pc, expression, chars, byte_ix, tokens,
       enumerator, has_error, result, trailing, parsed, value >>

RECURSIVE next_loop(_, _, _), number_loop(_, _, _), string_loop(_, _, _)
RECURSIVE eval_expr(_, _), gcd(_, _), byte_len(_), count_dots(_),
          digits_value(_), pow10(_)
RECURSIVE expr(_, _, _), expr_loop(_, _, _, _), singular(_, _),
          parentheses(_, _), params(_, _), params_loop(_, _, _)

---------------------------------------------------------------------------
(* Option<T> and Result<T, Error>                                          *)

None ==
    [some |-> FALSE]

Some(x) ==
    [some |-> TRUE, v |-> x]

Ok(x) ==
    [ok |-> TRUE, v |-> x]

Err(e) ==
    [ok |-> FALSE, e |-> e]

\* struct Error { error: String, at: u32 }; the text is kept as the format
\* string with its character and number arguments.
Error(fmt, ch, num, at) ==
    [error |-> << fmt, ch, num >>, at |-> at]

\* struct Position { at: u32, len: u16 }
Position(at, len) ==
    [at |-> at, len |-> len]

\* Position::to_range: start = at, end = at + len
to_range(pos) ==
    [start |-> pos.at, end |-> pos.at + pos.len]

---------------------------------------------------------------------------
(* operator.rs                                                             *)

Operator(char1, char2, precedence, prefix) ==
    [char1 |-> char1, char2 |-> char2, precedence |-> precedence, prefix |-> prefix]

OPERATORS ==
    << Operator("/", None, 60, FALSE),
       Operator("*", None, 60, FALSE),
       Operator("+", None, 50, TRUE),
       Operator("-", None, 50, TRUE),
       Operator("<", None, 40, FALSE),
       Operator(">", None, 40, FALSE),
       Operator("<", Some("="), 40, FALSE),
       Operator(">", Some("="), 40, FALSE),
       Operator("=", None, 30, FALSE) >>

\* Iterator::position over OPERATORS: the 0-based index of the first entry
\* that satisfies the predicate, given the set of the 1-based indices that
\* satisfy it.
position(matching) ==
    IF matching = {} THEN None
    ELSE Some((CHOOSE i \in matching : \A j \in matching : i <= j) - 1)

is_operator(char1) ==
    position({ i \in 1..Len(OPERATORS) : OPERATORS[i].char1 = char1 })

is_multi_char_never(char1, char2) ==
    None

is_multi_char(char1, char2) ==
    position({ i \in 1..Len(OPERATORS) :
                 /\ OPERATORS[i].char1 = char1
                 /\ OPERATORS[i].char2.some
                 /\ OPERATORS[i].char2.v = char2 })

from(operator_ix) ==
    OPERATORS[operator_ix + 1]

---------------------------------------------------------------------------
(* char classification (std)                                               *)

AsciiDigits ==
    {"0", "1", "2", "3", "4", "5", "6", "7", "8", "9"}

AsciiLetters ==
    {"a", "b", "c", "d", "e", "f", "g", "h", "i", "j", "k", "l", "m",
     "n", "o", "p", "q", "r", "s", "t", "u", "v", "w", "x", "y", "z",
     "A", "B", "C", "D", "E", "F", "G", "H", "I", "J", "K", "L", "M",
     "N", "O", "P", "Q", "R", "S", "T", "U", "V", "W", "X", "Y", "Z"}

AsciiPunctuation ==
    {"!", "\"", "#", "$", "%", "&", "'", "(", ")", "*", "+", ",", "-", ".",
     "/", ":", ";", "<", "=", ">", "?", "@", "[", "\\", "]", "^", "_", "U+0060",
     "{", "|", "}", "~"}

is_ascii_whitespace(ch) ==
    ch \in {" ", "\t", "\n", "\f", "\r"}

is_ascii_digit(ch) ==
    ch \in AsciiDigits

is_ascii_punctuation(ch) ==
    ch \in AsciiPunctuation

\* char::is_alphanumeric is Unicode-aware: e acute is alphabetic, the euro
\* sign is not.
is_alphanumeric(ch) ==
    ch \in AsciiDigits \cup AsciiLetters \cup {"U+00E9"}

\* char::len_utf8
len_utf8(ch) ==
    IF ch = "U+00E9" THEN 2 ELSE IF ch = "U+20AC" THEN 3 ELSE 1

---------------------------------------------------------------------------
(* tokenizer.rs                                                            *)

Number(pos) ==
    [type |-> "Number", pos |-> pos]

Str(pos) ==
    [type |-> "Str", pos |-> pos]

OperatorToken(at, operator_ix) ==
    [type |-> "Operator", at |-> at, operator_ix |-> operator_ix]

Comma(at) ==
    [type |-> "Comma", at |-> at]

LParen(at) ==
    [type |-> "LParen", at |-> at]

RParen(at) ==
    [type |-> "RParen", at |-> at]

\* struct Tokens { chars, byte_ix }: chars is the number of characters of
\* the source the Chars iterator has handed out.
Tokens(c, b) ==
    [chars |-> c, byte_ix |-> b]

\* Peekable<Chars>::peek
chars_peek(src, self) ==
    IF self.chars < Len(src) THEN Some(src[self.chars + 1]) ELSE None

\* byte_ix is a u32 and the sources of the model are a few bytes long, so
\* the addition never wraps
next_char(src, self) ==
    IF self.chars < Len(src)
    THEN LET ch == src[self.chars + 1]
         IN  [some |-> TRUE, prev_ix |-> self.byte_ix, ch |-> ch,
              self |-> Tokens(self.chars + 1, self.byte_ix + len_utf8(ch))]
    ELSE [some |-> FALSE, self |-> self]

\* the while loop of number: len counts the characters taken
number_loop(src, self, len) ==
    LET p == chars_peek(src, self)
    IN  IF p.some /\ (is_ascii_digit(p.v) \/ p.v = ".")
        THEN number_loop(src, next_char(src, self).self, len + 1)
        ELSE [len |-> len, self |-> self]

number(src, self, at) ==
    LET r == number_loop(src, self, 1)
    IN  [position |-> Position(at, r.len), self |-> r.self]

string_loop(src, self, len) ==
    LET p == chars_peek(src, self)
    IN  IF p.some /\ (is_alphanumeric(p.v) \/ p.v = "_")
        THEN string_loop(src, next_char(src, self).self, len + 1)
        ELSE [len |-> len, self |-> self]

string(src, self, at) ==
    LET r == string_loop(src, self, 1)
    IN  [token |-> Str(Position(at, r.len)), self |-> r.self]

\* the operator branch of Tokens::next
operator_branch(src, self, ch, at, ix1) ==
    LET char2 == chars_peek(src, self)
        ix2   == IF char2.some THEN is_multi_char(ch, char2.v) ELSE None
    IN  IF ix2.some
        THEN [item |-> Some(Ok(OperatorToken(at, ix2.v))),
              self |-> next_char(src, self).self]
        ELSE [item |-> Some(Ok(OperatorToken(at, ix1))), self |-> self]

\* the while loop of Tokens::next; char_num is its local counter
next_loop(src, self, char_num) ==
    LET nc == next_char(src, self)
    IN  IF ~nc.some THEN [item |-> None, self |-> nc.self]
        ELSE
        LET ch      == nc.ch
            at      == nc.prev_ix
            n       == char_num + 1
            num     == number(src, nc.self, at)
            ix1     == is_operator(ch)
            str     == string(src, nc.self, at)
        IN  IF is_ascii_whitespace(ch) THEN next_loop(src, nc.self, n)
            ELSE IF is_ascii_digit(ch) \/ ch = "." THEN
                IF num.position.len = 1 /\ ch = "."
                THEN [item |-> Some(Err(Error("Unexpected token '.' at position {}",
                                              "", n, n))),
                      self |-> num.self]
                ELSE [item |-> Some(Ok(Number(num.position))), self |-> num.self]
            ELSE IF ix1.some THEN operator_branch(src, nc.self, ch, at, ix1.v)
            ELSE IF ch = "," THEN [item |-> Some(Ok(Comma(at))), self |-> nc.self]
            ELSE IF ch = "(" THEN [item |-> Some(Ok(LParen(at))), self |-> nc.self]
            ELSE IF ch = ")" THEN [item |-> Some(Ok(RParen(at))), self |-> nc.self]
            ELSE IF is_ascii_punctuation(ch) /\ ch # "_"
            THEN [item |-> Some(Err(Error("Found reserved character {} at {}",
                                          ch, n, n))),
                  self |-> nc.self]
            ELSE [item |-> Some(Ok(str.token)), self |-> str.self]

\* Tokens::next
Tokens_next(src, self) ==
    next_loop(src, self, 0)

---------------------------------------------------------------------------
(* lib.rs: enum Expr                                                       *)

ExprNumber(pos) ==
    [type |-> "Number", pos |-> pos]

ExprVariable(pos) ==
    [type |-> "Variable", pos |-> pos]

ExprFunc(name, ps) ==
    [type |-> "Func", name |-> name, params |-> ps]

ExprUnary(e, operator_ix) ==
    [type |-> "Unary", expr |-> e, operator_ix |-> operator_ix]

ExprBinary(left, right, operator_ix) ==
    [type |-> "Binary", left |-> left, right |-> right, operator_ix |-> operator_ix]

---------------------------------------------------------------------------
(* parser.rs                                                               *)
(* The token source is a sequence src of Result<Token, Error>; past its    *)
(* end it yields None.  The parser's iterator state st is                  *)
(*   ix        the number of items pulled from the source,                 *)
(*   peeked    the slot of Peekable: None, or Some of the Option it holds, *)
(*   has_error the Option<Error> the scan closure writes,                  *)
(*   pulled    the history of the source: the indices of the elements it   *)
(*             has yielded, in the order of the calls of its next.         *)

\* the enumerator as parse builds it
new_enumerator ==
    [ix |-> 0, peeked |-> None, has_error |-> None, pulled |-> << >>]

\* Scan::next with the closure of parse: pull one item from the source;
\* a token passes through, an error is stored and None is returned.  Scan
\* is not fused: a later call pulls from the source again.
\* the same with a source that yields an error item again on the next call
scan_next_error_not_passed(src, st) ==
    IF st.ix < Len(src)
    THEN LET res == src[st.ix + 1]
         IN  IF res.ok
             THEN [opt |-> Some(res.v),
                   st  |-> [st EXCEPT !.ix = @ + 1,
                                      !.pulled = Append(@, st.ix + 1)]]
             ELSE [opt |-> None,
                   st  |-> [st EXCEPT !.has_error = Some(res.e),
                                      !.pulled = Append(@, st.ix + 1)]]
    ELSE [opt |-> None, st |-> st]

scan_next(src, st) ==
    IF st.ix < Len(src)
    THEN LET res == src[st.ix + 1]
         IN  IF res.ok
             THEN [opt |-> Some(res.v),
                   st  |-> [st EXCEPT !.ix = @ + 1,
                                      !.pulled = Append(@, st.ix + 1)]]
             ELSE [opt |-> None,
                   st  |-> [st EXCEPT !.ix = @ + 1,
                                      !.has_error = Some(res.e),
                                      !.pulled = Append(@, st.ix + 1)]]
    ELSE [opt |-> None, st |-> st]

\* Peekable::peek: fill the slot if it is empty, return what it holds
peek(src, st) ==
    IF st.peeked.some
    THEN [opt |-> st.peeked.v, st |-> st]
    ELSE LET n == scan_next(src, st)
         IN  [opt |-> n.opt, st |-> [n.st EXCEPT !.peeked = Some(n.opt)]]

\* Peekable::next: take the slot if it is filled (a held None included),
\* else pull
tokens_next(src, st) ==
    IF st.peeked.some
    THEN [opt |-> st.peeked.v, st |-> [st EXCEPT !.peeked = None]]
    ELSE scan_next(src, st)

error(text, token) ==
    Err(Error(text, "", 0, 0))

(* A parsing function returns [res, st]: its Result and the iterator state *)
(* it leaves.  Where the code uses a value it has just computed more than  *)
(* once, the rest of the function is a definition of its own that takes    *)
(* the value as a parameter.                                               *)

Return(res, st) ==
    [res |-> res, st |-> st]

\* the test of the while loop of expr that lets an operator be consumed
climbs_ge(new_prec, precedence) ==
    new_prec >= precedence

climbs(new_prec, precedence) ==
    new_prec > precedence

\* lines 44-48 of expr: right is what expr(tokens, new_prec) returned; left?
\* and right? return the error, else the loop goes on with the Binary
expr_binary(src, left, operator_ix, right, precedence) ==
    IF ~left.ok THEN Return(left, right.st)
    ELSE IF ~right.res.ok THEN right
    ELSE expr_loop(src, right.st,
                   Ok(ExprBinary(left.v, right.res.v, operator_ix)), precedence)

\* the body of the while loop of expr; p is what peek returned
expr_peeked(src, p, left, precedence) ==
    IF ~p.opt.some THEN Return(left, p.st)
    ELSE IF p.opt.v.type = "Operator"
            /\ climbs(from(p.opt.v.operator_ix).precedence, precedence)
    THEN expr_binary(src, left, p.opt.v.operator_ix,
                     expr(src, tokens_next(src, p.st).st,
                          from(p.opt.v.operator_ix).precedence),
                     precedence)
    ELSE Return(left, p.st)

\* the while loop of expr; left is a Result
expr_loop(src, st, left, precedence) ==
    expr_peeked(src, peek(src, st), left, precedence)

\* expr after singular has returned left
expr_after(src, left, precedence) ==
    expr_loop(src, left.st, left.res, precedence)

expr(src, st, precedence) ==
    expr_after(src, singular(src, st), precedence)

\* the Operator arm of singular: the operator has been consumed and e is
\* what expr(tokens, 0) returned
unary_prefix_only(e, operator_ix) ==
    IF ~from(operator_ix).prefix
    THEN Return(error("Unexpected operator ", operator_ix), e.st)
    ELSE IF e.res.ok THEN Return(Ok(ExprUnary(e.res.v, operator_ix)), e.st)
    ELSE e

unary(e, operator_ix) ==
    IF e.res.ok THEN Return(Ok(ExprUnary(e.res.v, operator_ix)), e.st)
    ELSE e

\* the Func of the Str arm: ps is what params returned
func(name, ps) ==
    IF ps.res.ok THEN Return(Ok(ExprFunc(name, ps.res.v)), ps.st)
    ELSE ps

\* the Str arm of singular after the name has been consumed; p is what
\* tokens.peek() returned
string_peeked(src, p, name) ==
    IF p.opt.some /\ p.opt.v.type = "LParen"
    THEN func(name, params(src, p.st))
    ELSE Return(Ok(ExprVariable(name)), p.st)

\* singular; p is what peek returned
singular_peeked(src, p) ==
    IF p.opt.some
    THEN CASE p.opt.v.type = "Operator" ->
                unary(expr(src, tokens_next(src, p.st).st, 0), p.opt.v.operator_ix)
           [] p.opt.v.type = "Str" ->
                string_peeked(src, peek(src, tokens_next(src, p.st).st), p.opt.v.pos)
           [] p.opt.v.type = "LParen" -> parentheses(src, p.st)
           [] p.opt.v.type = "Number" ->
                Return(Ok(ExprNumber(p.opt.v.pos)), tokens_next(src, p.st).st)
           [] OTHER ->
                Return(error("Expected operator, variable, function or number but found ",
                             p.opt.v), p.st)
    ELSE Return(Err(Error("Expected expression but reached the end", "", 0, 0)), p.st)

singular(src, st) ==
    singular_peeked(src, peek(src, st))

\* the match of parentheses; e is the Ok that expr returned and c what
\* tokens.next() returned
parentheses_close(e, c) ==
    IF c.opt.some
    THEN IF c.opt.v.type = "RParen" THEN Return(e.res, c.st)
         ELSE Return(error("Expected closing parenthesis ')' but found ", c.opt.v), c.st)
    ELSE Return(Err(Error("Missing closing parenthesis ')'", "", 0, 0)), c.st)

\* parentheses after expr(tokens, 0)? : an error returns at once
parentheses_after(src, e) ==
    IF ~e.res.ok THEN e
    ELSE parentheses_close(e, tokens_next(src, e.st))

parentheses(src, st) ==
    parentheses_after(src, expr(src, tokens_next(src, st).st, 0))

\* vec.push(expr(tokens, 0)?); e is what expr returned
params_push(src, vec, e) ==
    IF e.res.ok THEN params_loop(src, e.st, Append(vec, e.res.v))
    ELSE e

\* the match of the loop of params; p is what tokens.peek() returned
params_peeked(src, p, vec) ==
    IF ~p.opt.some
    THEN Return(Err(Error("Missing closing parenthesis ')'", "", 0, 0)), p.st)
    ELSE IF p.opt.v.type = "RParen" THEN Return(Ok(vec), tokens_next(src, p.st).st)
    ELSE IF p.opt.v.type = "Comma"
    THEN params_push(src, vec, expr(src, tokens_next(src, p.st).st, 0))
    ELSE params_push(src, vec, expr(src, p.st, 0))

\* the loop of params; vec is the list built so far
params_loop(src, st, vec) ==
    params_peeked(src, peek(src, st), vec)

params(src, st) ==
    params_loop(src, tokens_next(src, st).st, << >>)

\* lines 19-28 of parse: what parse returns, given the result of expr, the
\* Option that enumerator.next() returned and has_error
parse_return_no_error_check(res, unconsumed, has_err) ==
    IF unconsumed.some THEN error("Unexpected token ", unconsumed.v)
    ELSE res

parse_return_no_unconsumed_check(res, unconsumed, has_err) ==
    IF has_err.some THEN Err(has_err.v)
    ELSE res

parse_return(res, unconsumed, has_err) ==
    IF unconsumed.some THEN error("Unexpected token ", unconsumed.v)
    ELSE IF has_err.some THEN Err(has_err.v)
    ELSE res

\* parse after enumerator.next(): r is what expr returned, n what next
\* returned; ret is what parse returns, the other fields are its locals
parse_checked(r, n) ==
    [ret      |-> parse_return(r.res, n.opt, n.st.has_error),
     result   |-> r.res,
     trailing |-> n.opt,
     st       |-> n.st]

\* parse after expr(&mut enumerator, 0)
parse_after(src, r) ==
    parse_checked(r, tokens_next(src, r.st))

parse(src) ==
    parse_after(src, expr(src, new_enumerator, 0))

---------------------------------------------------------------------------
(* f32 and str (std), as far as lib.rs uses them.  A finite f32 is kept as *)
(* the exact rational n/d in lowest terms with d > 0: rounding to 24 bits  *)
(* and the sign of zero are not modelled.                                  *)

abs(x) ==
    IF x < 0 THEN -x ELSE x

gcd(a, b) ==
    IF b = 0 THEN a ELSE gcd(b, a % b)

F(n, d) ==
    LET g == gcd(abs(n), abs(d))
        s == IF d < 0 THEN -1 ELSE 1
    IN  [k |-> "fin", n |-> (s * n) \div g, d |-> (s * d) \div g]

INF(sign) ==
    [k |-> "inf", n |-> sign, d |-> 0]

NAN ==
    [k |-> "nan", n |-> 0, d |-> 0]

sign_of(x) ==
    IF x.n < 0 THEN -1 ELSE 1

neg(x) ==
    IF x.k = "nan" THEN NAN ELSE IF x.k = "inf" THEN INF(-x.n) ELSE F(-x.n, x.d)

add(x, y) ==
    IF x.k = "nan" \/ y.k = "nan" THEN NAN
    ELSE IF x.k = "inf" /\ y.k = "inf" THEN (IF x.n = y.n THEN x ELSE NAN)
    ELSE IF x.k = "inf" THEN x
    ELSE IF y.k = "inf" THEN y
    ELSE F(x.n * y.d + y.n * x.d, x.d * y.d)

mul(x, y) ==
    IF x.k = "nan" \/ y.k = "nan" THEN NAN
    ELSE IF x.k = "inf" \/ y.k = "inf"
    THEN (IF x.n = 0 \/ y.n = 0 THEN NAN ELSE INF(sign_of(x) * sign_of(y)))
    ELSE F(x.n * y.n, x.d * y.d)

div(x, y) ==
    IF x.k = "nan" \/ y.k = "nan" THEN NAN
    ELSE IF x.k = "inf" THEN (IF y.k = "inf" THEN NAN ELSE INF(sign_of(x) * sign_of(y)))
    ELSE IF y.k = "inf" THEN F(0, 1)
    ELSE IF y.n = 0 THEN (IF x.n = 0 THEN NAN ELSE INF(sign_of(x)))
    ELSE F(x.n * y.d, x.d * y.n)

lt(x, y) ==
    /\ x.k # "nan"
    /\ y.k # "nan"
    /\ IF x.k = "inf" /\ y.k = "inf" THEN x.n < y.n ELSE x.n * y.d < y.n * x.d

eq(x, y) ==
    x.k # "nan" /\ y.k # "nan" /\ x = y

le(x, y) ==
    lt(x, y) \/ eq(x, y)

\* std::f64::consts::PI as f32 = 13176795 * 2^-22
PI ==
    F(13176795, 4194304)

byte_len(s) ==
    IF s = << >> THEN 0 ELSE len_utf8(Head(s)) + byte_len(Tail(s))

\* the number of characters of s whose bytes end at byte offset b, or -1
\* when b is not a character boundary of s
char_boundary(s, b) ==
    IF \E k \in 0..Len(s) : byte_len(SubSeq(s, 1, k)) = b
    THEN CHOOSE k \in 0..Len(s) : byte_len(SubSeq(s, 1, k)) = b
    ELSE -1

\* str indexing by a byte range: Err stands for the panic of the index
slice(s, range) ==
    LET from_ix == char_boundary(s, range.start)
        to_ix   == char_boundary(s, range.end)
    IN  IF range.start <= range.end /\ from_ix >= 0 /\ to_ix >= 0
        THEN Ok(SubSeq(s, from_ix + 1, to_ix))
        ELSE Err("byte index is not a char boundary or out of bounds")

count_dots(s) ==
    IF s = << >> THEN 0
    ELSE (IF Head(s) = "." THEN 1 ELSE 0) + count_dots(Tail(s))

digit_value(ch) ==
    CHOOSE i \in 0..9 : << "0", "1", "2", "3", "4", "5", "6", "7", "8", "9" >>[i + 1] = ch

\* the value of the digits of s read as one decimal integer, dots skipped
digits_value(s) ==
    IF s = << >> THEN 0
    ELSE IF s[Len(s)] = "." THEN digits_value(SubSeq(s, 1, Len(s) - 1))
    ELSE 10 * digits_value(SubSeq(s, 1, Len(s) - 1)) + digit_value(s[Len(s)])

pow10(k) ==
    IF k = 0 THEN 1 ELSE 10 * pow10(k - 1)

\* the number of digits after the dot of s
fraction_digits(s) ==
    IF count_dots(s) = 0 THEN 0
    ELSE Len(s) - (CHOOSE i \in 1..Len(s) : s[i] = ".")

\* str::parse::<f32> on texts of digits and dots: one dot at most and one
\* digit at least; signs, exponents and the words inf and nan do not occur
\* in the texts of the model.
parse_f32(s) ==
    IF /\ \A i \in 1..Len(s) : s[i] \in AsciiDigits \cup {"."}
       /\ \E i \in 1..Len(s) : s[i] \in AsciiDigits
       /\ count_dots(s) <= 1
    THEN Ok(F(digits_value(s), pow10(fraction_digits(s))))
    ELSE Err("invalid float literal")

---------------------------------------------------------------------------
(* lib.rs: eval_expr.  An outcome is a value or a panic, with calls, the   *)
(* nodes eval_expr was called on, in the order of the calls.               *)

Val(v, calls) ==
    [panic |-> FALSE, v |-> v, calls |-> calls]

Panic(calls) ==
    [panic |-> TRUE, v |-> NAN, calls |-> calls]

truth(b) ==
    IF b THEN F(1, 1) ELSE F(0, 1)

\* the match on operator.char1 of the Binary arm; Err is its panic arm
binary_apply(operator, left, right) ==
    LET c      == operator.char1
        with_eq == operator.char2.some /\ operator.char2.v = "="
    IN  IF c = "+" THEN Ok(add(left, right))
        ELSE IF c = "-" THEN Ok(add(left, neg(right)))
        ELSE IF c = "*" THEN Ok(mul(left, right))
        ELSE IF c = "/" THEN Ok(div(left, right))
        ELSE IF c = ">" /\ with_eq THEN Ok(truth(le(right, left)))
        ELSE IF c = "<" /\ with_eq THEN Ok(truth(le(left, right)))
        ELSE IF c = ">" THEN Ok(truth(lt(right, left)))
        ELSE IF c = "<" THEN Ok(truth(lt(left, right)))
        ELSE IF c = "=" THEN Ok(truth(eq(left, right)))
        ELSE Err("Unexpected operator")

\* the condition of the 'if' function: params[0] > 0.0
selects_first_ge(cond) ==
    le(F(0, 1), cond)

selects_first(cond) ==
    lt(F(0, 1), cond)

\* the arms "pi" and _ of the match on the name
nullary(e, source, v) ==
    Val(v, << e >>)

\* the Func arm of eval_expr
eval_func(e, source) ==
    LET name == slice(source, to_range(e.name))
        c    == eval_expr(e.params[1], source)
        b    == IF selects_first(c.v)
                THEN eval_expr(e.params[2], source)
                ELSE eval_expr(e.params[3], source)
    IN  IF ~name.ok THEN Panic(<< e >>)
        ELSE IF name.v = << "p", "i" >> THEN nullary(e, source, PI)
        ELSE IF name.v = << "i", "f" >>
        THEN IF Len(e.params) # 3 THEN Panic(<< e >>)
             ELSE IF c.panic THEN Panic(<< e >> \o c.calls)
             ELSE [b EXCEPT !.calls = << e >> \o c.calls \o @]
        ELSE nullary(e, source, F(0, 1))

eval_expr(e, source) ==
    CASE e.type = "Number" ->
           LET text == slice(source, to_range(e.pos))
               f    == parse_f32(text.v)
           IN  IF text.ok /\ f.ok THEN Val(f.v, << e >>) ELSE Panic(<< e >>)
      [] e.type = "Binary" ->
           LET left  == eval_expr(e.left, source)
               right == eval_expr(e.right, source)
               r     == binary_apply(from(e.operator_ix), left.v, right.v)
           IN  IF left.panic THEN Panic(<< e >> \o left.calls)
               ELSE IF right.panic \/ ~r.ok
               THEN Panic(<< e >> \o left.calls \o right.calls)
               ELSE Val(r.v, << e >> \o left.calls \o right.calls)
      [] e.type = "Unary" ->
           LET operator == from(e.operator_ix)
               x        == eval_expr(e.expr, source)
           IN  IF operator.char1 = "+" THEN [x EXCEPT !.calls = << e >> \o @]
               ELSE IF operator.char1 = "-"
               THEN [x EXCEPT !.v = neg(@), !.calls = << e >> \o @]
               ELSE Panic(<< e >>)
      [] e.type = "Variable" -> Val(F(1, 1), << e >>)
      [] e.type = "Func" -> eval_func(e, source)

---------------------------------------------------------------------------
(* Inputs                                                                  *)

MaxSrcLen ==
    3

MaxTokens ==
    4

MaxOps ==
    3

MaxArgs ==
    3

MaxArgItems ==
    3

\* the characters the bounded source strings are made of
SrcChars ==
    {" ", "1", ".", "/", "*", "+", "-", "<", ">", "=", ",", "(", ")", "&",
     "a", "U+00E9"}

\* the examples of the specification and of the tests of lib.rs
Examples ==
    { << "3", " ", "*", " ", "2", " ", "+", " ", "1" >>,
      << "1", " ", "+", " ", "3", " ", "*", " ", "2" >>,
      << "1", "2", "/", "2", "/", "3" >>,
      << "i", "f", "(", "1", ",", "*", "1", ",", "2", ")" >>,
      << "i", "f", "(", "0", ",", "*", "1", ",", "2", ")" >>,
      << "f", "(", "*", "1", ")" >>,
      << "p", "i", "(", ")" >>,
      << "-", "1", "+", "2" >>,
      << "*", "1", "+", "2" >>,
      << "(", "1", " ", "&", " ", "2" >>,
      << "U+00E9", "(", ")" >> }

Sources ==
    (UNION { [1..n -> SrcChars] : n \in 0..MaxSrcLen }) \cup Examples

\* the items of the token vectors handed to parse, as the tests of
\* parser.rs build them (every position 0)
NUMBER ==
    Ok(Number(Position(0, 0)))

STRING_ ==
    Ok(Str(Position(0, 0)))

L_PAREN ==
    Ok(LParen(0))

R_PAREN ==
    Ok(RParen(0))

COMMA ==
    Ok(Comma(0))

OPERATOR(ix) ==
    Ok(OperatorToken(0, ix))

TOKENIZER_ERROR ==
    Err(Error("tokenizer", "", 0, 0))

Items ==
    {NUMBER, STRING_, L_PAREN, R_PAREN, COMMA, OPERATOR(1), OPERATOR(2),
     TOKENIZER_ERROR}

OperatorIds ==
    0..(Len(OPERATORS) - 1)

\* term (op term)^k as the scanner yields it for one-character lexemes:
\* the i-th item sits at byte i - 1
Chain(ops) ==
    [i \in 1..(2 * Len(ops) + 1) |->
        IF i % 2 = 1 THEN Ok(Number(Position(i - 1, 1)))
        ELSE Ok(OperatorToken(i - 1, ops[i \div 2]))]

Chains ==
    { Chain(ops) : ops \in UNION { [1..k -> OperatorIds] : k \in 0..MaxOps } }

\* op term binop term
PrefixForms ==
    { << OPERATOR(op) >> \o Chain(<< binop >>) : op \in OperatorIds, binop \in OperatorIds }

\* name '(' items [')'] as the scanner yields it for one-character lexemes,
\* the items between the parentheses being numbers and commas
ArgKinds ==
    {"Number", "Comma"}

ArgItem(kind, at) ==
    IF kind = "Number" THEN Ok(Number(Position(at, 1))) ELSE Ok(Comma(at))

Call(kinds, closed) ==
    << Ok(Str(Position(0, 1))), Ok(LParen(1)) >>
    \o [i \in 1..Len(kinds) |-> ArgItem(kinds[i], i + 1)]
    \o (IF closed THEN << Ok(RParen(Len(kinds) + 2)) >> ELSE << >>)

Calls ==
    { Call(kinds, closed) :
        kinds \in UNION { [1..n -> ArgKinds] : n \in 0..MaxArgItems },
        closed \in BOOLEAN }

TokenVectors ==
    (UNION { [1..n -> Items] : n \in 0..MaxTokens }) \cup Chains \cup PrefixForms
    \cup Calls

\* the source and the trees handed to eval_expr directly
EvalSource ==
    << "i", "f", " ", "p", "i", " ", "f", " ", "0", " ", "1" >>

EvalArgs ==
    LET zero == ExprNumber(Position(8, 1))
        one  == ExprNumber(Position(10, 1))
    IN  { zero, one, ExprVariable(Position(6, 1)),
          ExprUnary(one, 3), ExprUnary(one, 1),
          ExprBinary(one, one, 3), ExprBinary(one, zero, 0),
          ExprFunc(Position(6, 1), << ExprUnary(one, 1) >>) }

EvalTrees ==
    { ExprFunc(name, ps) :
        name \in { Position(0, 2), Position(3, 2), Position(6, 1) },
        ps \in UNION { [1..n -> EvalArgs] : n \in 0..MaxArgs } }

---------------------------------------------------------------------------
(* The program: evaluate runs Tokens::next as often as parse pulls, then   *)
(* parse, then eval_expr; parse and eval_expr are also entered directly.   *)
(* The scanner does not depend on the parser, so the items it yields are   *)
(* collected in tokens before parse runs on them.                          *)

NoValue ==
    [kind |-> "none"]

Init ==
    /\ chars = 0
    /\ byte_ix = 0
    /\ enumerator = [ix |-> 0, peeked |-> None, pulled |-> << >>]
    /\ has_error = None
    /\ result = None
    /\ trailing = None
    /\ value = NoValue
    /\ \/ /\ entry = "evaluate"
          /\ pc = "scan"
          /\ expression \in Sources
          /\ tokens = << >>
          /\ parsed = None
       \/ /\ entry = "parse"
          /\ pc = "parse"
          /\ expression = << >>
          /\ tokens \in TokenVectors
          /\ parsed = None
       \/ /\ entry = "eval_expr"
          /\ pc = "eval"
          /\ expression = EvalSource
          /\ tokens = << >>
          /\ parsed \in { Ok(t) : t \in EvalTrees }

\* one call of Tokens::next by the parser
TokensNext ==
    /\ pc = "scan"
    /\ LET r == Tokens_next(expression, Tokens(chars, byte_ix))
       IN  /\ chars' = r.self.chars
           /\ byte_ix' = r.self.byte_ix
           /\ IF r.item.some
              THEN tokens' = Append(tokens, r.item.v) /\ pc' = "scan"
              ELSE tokens' = tokens /\ pc' = "parse"
    /\ UNCHANGED << entry, expression, enumerator, has_error, result, trailing,
                    parsed, value >>

\* parse(&mut tokens); in evaluate an error returns from evaluate (the ?)
Parse ==
    /\ pc = "parse"
    /\ \E r \in { parse(tokens) } :
           /\ parsed' = r.ret
           /\ result' = r.result
           /\ trailing' = r.trailing
           /\ enumerator' = [ix |-> r.st.ix, peeked |-> r.st.peeked,
                             pulled |-> r.st.pulled]
           /\ has_error' = r.st.has_error
           /\ IF entry = "evaluate" /\ r.ret.ok
              THEN pc' = "eval" /\ value' = value
              ELSE /\ pc' = "done"
                   /\ value' = IF entry = "evaluate"
                               THEN [kind |-> "Err", e |-> r.ret.e]
                               ELSE value
    /\ UNCHANGED << entry, expression, chars, byte_ix, tokens >>

\* eval_expr(&expr, expression)
EvalExpr ==
    /\ pc = "eval"
    /\ LET r == eval_expr(parsed.v, expression)
       IN  value' = IF r.panic
                    THEN [kind |-> "panic", calls |-> r.calls]
                    ELSE [kind |-> "Ok", v |-> r.v, calls |-> r.calls]
    /\ pc' = "done"
    /\ UNCHANGED << entry, expression, chars, byte_ix, tokens, enumerator,
                    has_error, result, trailing, parsed >>

Next ==
    \/ TokensNext
    \/ Parse
    \/ EvalExpr

Spec ==
    Init /\ [][Next]_vars

---------------------------------------------------------------------------
(* Vocabulary of the properties                                            *)

\* parse has returned
ParseDone ==
    entry # "eval_expr" /\ pc \in {"eval", "done"}

\* eval_expr has returned or panicked
EvalDone ==
    pc = "done" /\ value.kind \in {"Ok", "panic"}

IsToken(item, type) ==
    item.ok /\ item.v.type = type

\* term (op term)* with Number terms
IsChain(items) ==
    /\ Len(items) % 2 = 1
    /\ \A i \in 1..Len(items) :
          IF i % 2 = 1 THEN IsToken(items[i], "Number") ELSE IsToken(items[i], "Operator")

Prec(operator_ix) ==
    OPERATORS[operator_ix + 1].precedence

\* the terms and operators of a tree of Number and Binary nodes, left to
\* right: a term is its position, an operator its id
RECURSIVE InOrder(_)
InOrder(e) ==
    IF e.type = "Binary" THEN InOrder(e.left) \o << e.operator_ix >> \o InOrder(e.right)
    ELSE IF e.type = "Number" THEN << e.pos >>
    ELSE << >>

ItemKeys(items) ==
    [i \in 1..Len(items) |->
        IF items[i].v.type = "Operator" THEN items[i].v.operator_ix ELSE items[i].v.pos]

\* every right operand that is a Binary has a strictly higher precedence
\* than its parent, every left operand that is a Binary has a precedence
\* at least that of its parent
RECURSIVE WellClimbed(_)
WellClimbed(e) ==
    e.type = "Binary" =>
        /\ e.left.type = "Binary" => Prec(e.left.operator_ix) >= Prec(e.operator_ix)
        /\ e.right.type = "Binary" => Prec(e.right.operator_ix) > Prec(e.operator_ix)
        /\ WellClimbed(e.left)
        /\ WellClimbed(e.right)

\* a op1 b op2 c
ThreeTerms(items) ==
    LET a   == ExprNumber(items[1].v.pos)
        b   == ExprNumber(items[3].v.pos)
        c   == ExprNumber(items[5].v.pos)
        op1 == items[2].v.operator_ix
        op2 == items[4].v.operator_ix
    IN  IF Prec(op2) > Prec(op1)
        THEN ExprBinary(a, ExprBinary(b, c, op2), op1)
        ELSE ExprBinary(ExprBinary(a, b, op1), c, op2)

ValueIs(src, n) ==
    (entry = "evaluate" /\ expression = src /\ pc = "done")
        => value.kind = "Ok" /\ value.v = F(n, 1)

\* C1: for every token sequence term (op term)* parse returns the tree in
\* which a higher precedence binds tighter and equal precedences associate
\* to the left; three terms parse as the claim spells out; "3 * 2 + 1" and
\* "1 + 3 * 2" evaluate to 7 and "12/2/3" to 2.
C1_PrecedenceClimbing ==
    /\ (ParseDone /\ IsChain(tokens)) =>
          /\ parsed.ok
          /\ InOrder(parsed.v) = ItemKeys(tokens)
          /\ WellClimbed(parsed.v)
          /\ Len(tokens) = 5 => parsed.v = ThreeTerms(tokens)
    /\ ValueIs(<< "3", " ", "*", " ", "2", " ", "+", " ", "1" >>, 7)
    /\ ValueIs(<< "1", " ", "+", " ", "3", " ", "*", " ", "2" >>, 7)
    /\ ValueIs(<< "1", "2", "/", "2", "/", "3" >>, 2)

\* four terms whose tree has a Binary on both sides of the root
C1_Witness ==
    /\ ParseDone
    /\ IsChain(tokens)
    /\ Len(tokens) = 7
    /\ parsed.ok
    /\ parsed.v.left.type = "Binary"
    /\ parsed.v.right.type = "Binary"

\* the scanner diagnostics the parser has pulled
PulledErrors ==
    { tokens[i].e : i \in { j \in 1..enumerator.ix : ~tokens[j].ok } }

\* C2: whenever the token source yielded an error while parse was pulling,
\* parse returns that scanner diagnostic and no diagnostic of its own.
C2_ScannerErrorPriority ==
    (ParseDone /\ has_error.some) => (~parsed.ok /\ parsed.e \in PulledErrors)

\* the number of '(' minus the number of ')' among the first i items
RECURSIVE Depth(_, _)
Depth(items, i) ==
    IF i = 0 THEN 0
    ELSE Depth(items, i - 1)
         + (IF IsToken(items[i], "LParen") THEN 1 ELSE 0)
         - (IF IsToken(items[i], "RParen") THEN 1 ELSE 0)

\* an unclosed '(' or an extra ')'
Unbalanced(items) ==
    \/ Depth(items, Len(items)) > 0
    \/ \E i \in 1..Len(items) : Depth(items, i) < 0

\* C3: when the parser pulled a scanner error, or the input has an unclosed
\* '(' or an extra ')', parse returns an error and evaluate returns that
\* error: no float and no evaluation.
C3_MalformedInputFails ==
    (ParseDone /\ (has_error.some \/ Unbalanced(tokens))) =>
        /\ ~parsed.ok
        /\ entry = "evaluate" => (pc = "done" /\ value.kind = "Err")

\* a scanner error pulled after a complete expression had been built
C3_Witness ==
    /\ entry = "evaluate"
    /\ pc = "done"
    /\ has_error.some
    /\ result.ok
    /\ value.kind = "Err"

\* C4: a token left after the top-level expression makes parse fail; when
\* parse returns Ok every item of the sequence has been pulled and none
\* waits in the lookahead.
C4_OkOnlyWhenAllConsumed ==
    ParseDone =>
        /\ trailing.some => ~parsed.ok
        /\ parsed.ok => /\ enumerator.ix = Len(tokens)
                        /\ ~enumerator.peeked.some
                        /\ \A i \in 1..Len(tokens) : tokens[i].ok
                        /\ parsed = result

\* an expression was built and a token was left after it
C4_Witness ==
    /\ ParseDone
    /\ result.ok
    /\ trailing.some
    /\ ~parsed.ok

\* strictly greater than 0.0
Positive(x) ==
    x.k # "nan" /\ x.n > 0

NameOf(e) ==
    slice(expression, to_range(e.name))

\* the outcome of a call of 'if' with three arguments
IfOutcome(e) ==
    LET c   == eval_expr(e.params[1], expression)
        sel == IF Positive(c.v) THEN e.params[2] ELSE e.params[3]
        b   == eval_expr(sel, expression)
    IN  IF c.panic
        THEN value.kind = "panic" /\ value.calls = << e >> \o c.calls
        ELSE /\ value.calls = << e >> \o c.calls \o b.calls
             /\ value.kind = IF b.panic THEN "panic" ELSE "Ok"
             /\ ~b.panic => value.v = b.v

\* C5: 'if' with three arguments evaluates argument 0 and then only the
\* argument it selects (1 when argument 0 > 0, else 2) and returns its
\* value; 'pi' and unknown names evaluate no argument and return pi and 0.
C5_CallEvaluatesSelectedOnly ==
    (EvalDone /\ parsed.v.type = "Func" /\ NameOf(parsed.v).ok) =>
        LET e    == parsed.v
            name == NameOf(e).v
        IN  IF name = << "i", "f" >>
            THEN Len(e.params) = 3 => IfOutcome(e)
            ELSE /\ value.kind = "Ok"
                 /\ value.calls = << e >>
                 /\ value.v = IF name = << "p", "i" >> THEN PI ELSE F(0, 1)

\* 'if' whose condition is 0 and whose unselected branch is the fatal
\* Unary '*'
C5_Witness ==
    /\ EvalDone
    /\ parsed.v.type = "Func"
    /\ NameOf(parsed.v).ok
    /\ NameOf(parsed.v).v = << "i", "f" >>
    /\ Len(parsed.v.params) = 3
    /\ eval_expr(parsed.v.params[1], expression).v = F(0, 1)
    /\ ~eval_expr(parsed.v.params[1], expression).panic
    /\ eval_expr(parsed.v.params[2], expression).panic
    /\ value.kind = "Ok"

\* the step is a call of Tokens::next that yielded an item
Yields ==
    Len(tokens') = Len(tokens) + 1

Yielded ==
    tokens'[Len(tokens')]

\* the index of the first character after the first n that is not ASCII
\* whitespace, or 0
NextLexeme(n) ==
    LET rest == { k \in (n + 1)..Len(expression) : ~is_ascii_whitespace(expression[k]) }
    IN  IF rest = {} THEN 0 ELSE CHOOSE k \in rest : \A j \in rest : k <= j

ByteOffset(k) ==
    byte_len(SubSeq(expression, 1, k - 1))

\* C6: a scanner diagnostic carries the 1-based index, in the whole source,
\* of the offending character (the last character the scanner has taken).
C6_ErrorPositionIsCharIndex ==
    [][(Yields /\ ~Yielded.ok) => Yielded.e.at = chars']_vars

\* C7: the byte range of every Number or Str token lies in the source on
\* character boundaries and holds the text the scanner consumed for it.
C7_SpanRoundTrip ==
    [][(Yields /\ Yielded.ok /\ Yielded.v.type \in {"Number", "Str"}) =>
          LET text == slice(expression, to_range(Yielded.v.pos))
          IN  /\ text.ok
              /\ text.v = SubSeq(expression, NextLexeme(chars), chars')]_vars

OperatorGlyphs ==
    { OPERATORS[i].char1 : i \in 1..Len(OPERATORS) }

\* the id of the first table entry with glyph1 = c and glyph2 absent
LookupSingle(c) ==
    (CHOOSE i \in 1..Len(OPERATORS) :
        /\ OPERATORS[i].char1 = c /\ ~OPERATORS[i].char2.some
        /\ \A j \in 1..(i - 1) : ~(OPERATORS[j].char1 = c /\ ~OPERATORS[j].char2.some)) - 1

\* the id of the two-character entry c=
LookupPair(c) ==
    (CHOOSE i \in 1..Len(OPERATORS) :
        /\ OPERATORS[i].char1 = c
        /\ OPERATORS[i].char2.some
        /\ OPERATORS[i].char2.v = "=") - 1

\* C8: an operator glyph c followed by d yields one Operator token at the
\* byte offset of c: for "<=" and ">=" the two-character id, with both
\* characters consumed; otherwise the single-character id of c, with d
\* left for the next token.
C8_OperatorTwoPhase ==
    [][(pc = "scan" /\ NextLexeme(chars) # 0
            /\ expression[NextLexeme(chars)] \in OperatorGlyphs) =>
          LET k    == NextLexeme(chars)
              c    == expression[k]
              pair == k < Len(expression) /\ c \in {"<", ">"} /\ expression[k + 1] = "="
          IN  IF pair
              THEN /\ tokens' = Append(tokens, Ok(OperatorToken(ByteOffset(k), LookupPair(c))))
                   /\ chars' = k + 1
              ELSE /\ tokens' = Append(tokens, Ok(OperatorToken(ByteOffset(k), LookupSingle(c))))
                   /\ chars' = k]_vars

\* "<==" has been scanned into the tokens <= and =
C8_Witness ==
    /\ entry = "evaluate"
    /\ Len(tokens) >= 2
    /\ tokens[1] = Ok(OperatorToken(0, 6))
    /\ tokens[2] = Ok(OperatorToken(2, 8))

\* C9: after the scanner has yielded a diagnostic it yields nothing more,
\* and the parser pulls nothing after the diagnostic.
C9_ScanErrorTerminates ==
    /\ entry = "evaluate" => \A i \in 1..Len(tokens) : ~tokens[i].ok => i = Len(tokens)
    /\ ParseDone => \A i \in 1..Len(tokens) : ~tokens[i].ok => enumerator.ix <= i

\* C10: an Operator token at the start makes the result of the top-level
\* expr the Unary of that operator, whatever its id, over the result of
\* expr(0) on the tokens after it; [op, a, binop, b] parses as
\* Unary(op, Binary(a, binop, b)); and evaluate panics on a tree whose root
\* is a Unary of an operator other than '+' and '-'.
C10_AnyOperatorIsPrefix ==
    /\ (ParseDone /\ tokens # << >> /\ IsToken(tokens[1], "Operator")) =>
          LET op   == tokens[1].v.operator_ix
              rest == expr(Tail(tokens), new_enumerator, 0).res
          IN  /\ result = IF rest.ok THEN Ok(ExprUnary(rest.v, op)) ELSE rest
              /\ (Len(tokens) = 4 /\ IsChain(Tail(tokens))) =>
                    parsed = Ok(ExprUnary(ExprBinary(ExprNumber(tokens[2].v.pos),
                                                     ExprNumber(tokens[4].v.pos),
                                                     tokens[3].v.operator_ix), op))
    /\ (entry = "evaluate" /\ pc = "done" /\ parsed.ok /\ parsed.v.type = "Unary"
            /\ OPERATORS[parsed.v.operator_ix + 1].char1 \notin {"+", "-"}) =>
          value.kind = "panic"

\* evaluate has panicked on a Unary of an operator that is no prefix
C10_Witness ==
    /\ entry = "evaluate"
    /\ pc = "done"
    /\ parsed.ok
    /\ parsed.v.type = "Unary"
    /\ ~OPERATORS[parsed.v.operator_ix + 1].prefix
    /\ parsed.v.expr.type = "Binary"
    /\ value.kind = "panic"

---------------------------------------------------------------------------
\* the items between '(' and the end or the closing ')' of a call vector
Closed(items) ==
    Len(items) > 2 /\ IsToken(items[Len(items)], "RParen")

Body(items) ==
    SubSeq(items, 3, IF Closed(items) THEN Len(items) - 1 ELSE Len(items))

\* number (',' number ...: numbers and commas in turn, a number first
Alternating(body) ==
    \A i \in 1..Len(body) :
        IF i % 2 = 1 THEN IsToken(body[i], "Number") ELSE IsToken(body[i], "Comma")

\* nothing, or expr (',' expr)*
CommaSeparated(body) ==
    Len(body) = 0 \/ (Len(body) % 2 = 1 /\ Alternating(body))

\* the argument expressions of a body, in source order
Arguments(body) ==
    SelectSeq([i \in 1..Len(body) |->
                  IF IsToken(body[i], "Number") THEN ExprNumber(body[i].v.pos)
                  ELSE None],
              LAMBDA e : e # None)

C11_AcceptsExactlyCommaSeparated ==
    (ParseDone /\ tokens \in Calls) =>
        (parsed.ok <=> (Closed(tokens) /\ CommaSeparated(Body(tokens))))

C11_OneEntryPerArgument ==
    (ParseDone /\ tokens \in Calls /\ parsed.ok) =>
        /\ parsed.v.type = "Func"
        /\ parsed.v.params = Arguments(Body(tokens))

C11_EndOfInputIsMissingParenthesis ==
    (ParseDone /\ tokens \in Calls /\ ~Closed(tokens) /\ Alternating(Body(tokens))) =>
        /\ ~parsed.ok
        /\ parsed.e.error[1] = "Missing closing parenthesis ')'"

\* C11: a call's argument list is accepted exactly when it is '(' ')' or
\* '(' expr (',' expr)* ')': the first argument has no comma before it and
\* every later one exactly one; an accepted list has one entry per argument
\* in source order; the end of the input before ')' fails with 'Missing
\* closing parenthesis'.
C11_ParamsCommaSeparated ==
    /\ C11_AcceptsExactlyCommaSeparated
    /\ C11_OneEntryPerArgument
    /\ C11_EndOfInputIsMissingParenthesis

---------------------------------------------------------------------------
\* the states the iterator can be in at the head of a loop, for a source
\* src: ix elements pulled, and the slot empty, holding None, or holding
\* the token pulled last
LoopStates(src) ==
    { [ix |-> ix, peeked |-> peeked, has_error |-> None,
       pulled |-> [i \in 1..ix |-> i]] :
        ix \in 0..Len(src),
        peeked \in {None, Some(None)} \cup { Some(Some(t)) : t \in Items } }

HeldToken(src, st) ==
    st.peeked.some /\ st.peeked.v.some

LoopState(src, st) ==
    HeldToken(src, st) =>
        st.ix > 0 /\ src[st.ix].ok /\ src[st.ix].v = st.peeked.v.v

\* the number of tokens taken out of the iterator: the tokens pulled from
\* the source less the one held in the slot
Consumed(src, st) ==
    Cardinality({ i \in 1..st.ix : src[i].ok })
    - (IF HeldToken(src, st) THEN 1 ELSE 0)

Precedences ==
    {0} \cup { OPERATORS[i].precedence : i \in 1..Len(OPERATORS) }

\* an iteration of the while loop of expr that starts in st and goes on
\* to another: the state in which the next one starts, else None
ExprIteration(src, st, precedence) ==
    LET p == peek(src, st)
    IN  IF p.opt.some /\ p.opt.v.type = "Operator"
           /\ climbs(from(p.opt.v.operator_ix).precedence, precedence)
        THEN LET right == expr(src, tokens_next(src, p.st).st,
                               from(p.opt.v.operator_ix).precedence)
             IN  IF right.res.ok THEN Some(right.st) ELSE None
        ELSE None

\* the same for the loop of params
ParamsIteration(src, st) ==
    LET p == peek(src, st)
    IN  IF p.opt.some /\ p.opt.v.type # "RParen"
        THEN LET e == expr(src, IF p.opt.v.type = "Comma"
                                THEN tokens_next(src, p.st).st ELSE p.st, 0)
             IN  IF e.res.ok THEN Some(e.st) ELSE None
        ELSE None

Progress(src, st, after) ==
    after.some => Consumed(src, after.v) > Consumed(src, st)

LoopsProgress(src) ==
    \A st \in { x \in LoopStates(src) : LoopState(src, x) } :
        /\ \A precedence \in Precedences :
              Progress(src, st, ExprIteration(src, st, precedence))
        /\ Progress(src, st, ParamsIteration(src, st))

\* C12: parse returns an expression or an error on every token sequence;
\* when it has returned it has pulled the elements in order, each at most
\* once, and no more than there are; the slot holds at most the token
\* pulled last; and an iteration of the loop of expr or of params that goes
\* on to another has consumed a token.
C12_ParseTerminatesPullingOnce ==
    /\ pc = "parse" => parse(tokens).ret.ok \in BOOLEAN
    /\ ParseDone =>
          /\ Len(enumerator.pulled) <= Len(tokens)
          /\ enumerator.pulled = [i \in 1..Len(enumerator.pulled) |-> i]
          /\ LoopState(tokens, enumerator)
          /\ LoopsProgress(tokens)

\* parse has run through iterations of the loop of expr that went on, and
\* has pulled every element of a chain of three operators
C12_Witness ==
    /\ ParseDone /\ parsed.ok
    /\ IsChain(tokens) /\ Len(tokens) >= 5
    /\ enumerator.pulled = [i \in 1..Len(tokens) |-> i]
    /\ \E precedence \in Precedences :
          ExprIteration(tokens, singular(tokens, new_enumerator).st,
                        precedence).some

====
